---- MODULE Spec2Model ----
(***************************************************************************)
(* Playback / export state machine of micro-visualizer (MainState).        *)
(*                                                                         *)
(* Time is counted in units of FINISHED_SEEK_DETECTION_THRESHOLD (0.1 s),  *)
(* so a position of 23 is 2.3 s.  The frame rate divides UnitsPerSecond,   *)
(* hence frame_to_time is exact, as the f64 division is for the frame      *)
(* rates it is exact for.  Each handler (event, ui, update, draw) is one   *)
(* atomic step relative to the audio engine's thread; the engine moves     *)
(* the sound between handlers.  The audio file that was loaded at          *)
(* construction is taken to stay loadable (StreamingSoundData::from_file   *)
(* succeeds on the reloads), and the live handle to accept pause, resume   *)
(* and seek_to; AudioManager::play and the encoder's spawn and write may   *)
(* fail.                                                                   *)
(*                                                                         *)
(* Spec follows main_state.rs; FairSpec adds that the host loop keeps      *)
(* calling update and draw.  SplitSpec follows the methods as the later    *)
(* files main_state/chapters.rs and main_state/rendering.rs have them      *)
(* (the 2 s rule of "previous chapter", the truncating Seconds::to_frames  *)
(* of time.rs, the end frame of render), on a track long enough for the    *)
(* 2 s rule.  TimeSpec follows the Frames/Seconds conversions alone, in    *)
(* f64 arithmetic, where positions are not multiples of 0.1 s.             *)
(***************************************************************************)
EXTENDS Integers, Sequences, FiniteSets, TLC

\* main_state.rs:28, 0.1 s: the unit of time of the model
FINISHED_SEEK_DETECTION_THRESHOLD == 1
UnitsPerSecond == 10 * FINISHED_SEEK_DETECTION_THRESHOLD
\* Visualizer::frame_rate (frames per second)
FrameRate == 5
\* duration of the audio file, in units of 0.1 s
DurationUnits == 12

None == <<>>
Some(x) == <<x>>

Modes == {"Stopped", "PlayingOrPaused", "Rendering"}
\* positions the seek bar / a caller can ask for
SeekTargets == {7, DurationUnits}
\* the chapter lists a visualizer may supply (start frames, strictly increasing)
ChapterLists == {<<>>, <<0, 3>>}

VARIABLES
    chapters,               \* MainState.chapters: start_frame of each chapter (the
                            \* sequence and the chapter indices are 1-based here)
    mode,                   \* variant of MainState.mode
    data,                   \* Stopped.data is Some
    start_position,         \* Stopped.start_position
    sound_state,            \* PlayingOrPaused.sound.state(), "None" without a handle
    sound_position,         \* PlayingOrPaused.sound.position()
    sound_seek,             \* the seek command the engine has not applied yet
    in_progress_seek,       \* PlayingOrPaused.in_progress_seek
    end_frame,              \* Rendering.end_frame
    current_frame,          \* Rendering.current_frame
    canvas_read_buffer,     \* Rendering.canvas_read_buffer is allocated
    ffmpeg,                 \* the last encoder process: none / piped / dropped / reaped
    swap_interval,          \* presentation mode of the context
    previous_position,      \* MainState.previous_position
    canvas,                 \* frame last drawn into MainState.canvas, None when blank
    start_chapter_index,    \* rendering_settings.start_chapter_index
    end_chapter_index,      \* rendering_settings.end_chapter_index
    show_rendering_window,  \* MainState.show_rendering_window
    phase,                  \* position in the host loop: "input" or "draw"
    session,                \* "running", "error" (a handler returned Err), "panic"
    start_frame,            \* history: start_frame of the export (until the tick after it)
    written,                \* history: current_frame at each write to the last encoder
    drawn,                  \* history: frames the visualizer drew during the last export
    tick_frame,             \* history: current frame at the previous draw tick, None before it
    last_op,                \* history: the last handler step and its outcome
    time_frame_rate,        \* conversions of time.rs: Visualizer::frame_rate, 0 when idle
    time_frames,            \* conversions: the Frames value converted
    time_seconds,           \* conversions: Some(its Seconds, an f64) once converted
    time_round_trip         \* conversions: Some(the frame the Seconds convert back to)

modeVars == <<mode, data, start_position, sound_state, sound_position, sound_seek,
              in_progress_seek, end_frame, current_frame, canvas_read_buffer>>
exportVars == <<ffmpeg, swap_interval>>
historyVars == <<start_frame, written, drawn>>
drawVars == <<previous_position, canvas, tick_frame>>
settingsVars == <<start_chapter_index, end_chapter_index, show_rendering_window>>
timeVars == <<time_frame_rate, time_frames, time_seconds, time_round_trip>>
mainVars == <<chapters, modeVars, exportVars, historyVars, drawVars, settingsVars, phase, session,
              last_op>>
vars == <<mainVars, timeVars>>

CeilDiv(a, b) == (a + b - 1) \div b
Abs(x) == IF x < 0 THEN -x ELSE x
Min(a, b) == IF a < b THEN a ELSE b

\* MainState::frame_to_time
frame_to_time(frame) == (frame * UnitsPerSecond) \div FrameRate

\* the conversion of MainState::current_frame and MainState::num_frames
position_to_frame(position) == CeilDiv(position * FrameRate, UnitsPerSecond)

\* MainState::num_frames
num_frames == position_to_frame(DurationUnits)

\* MainState::playing
playing == mode = "PlayingOrPaused" /\ sound_state = "Playing"

\* faulty variant: while playing or paused the position is always the handle's
current_position_of_handle ==
    CASE mode = "Stopped" -> start_position
      [] mode = "PlayingOrPaused" -> sound_position
      [] mode = "Rendering" -> frame_to_time(current_frame)

\* MainState::current_position
current_position ==
    CASE mode = "Stopped" -> start_position
      [] mode = "PlayingOrPaused" ->
            IF in_progress_seek # None THEN in_progress_seek[1] ELSE sound_position
      [] mode = "Rendering" -> frame_to_time(current_frame)

\* MainState::current_frame (the method; the Rendering field is current_frame)
current_frame_now == position_to_frame(current_position)

\* MainState::chapter_end_frame
chapter_end_frame(chapter_index) ==
    IF chapter_index + 1 <= Len(chapters)
    THEN chapters[chapter_index + 1] - 1
    ELSE num_frames - 1

\* no conversion is being followed
TimeIdle ==
    /\ time_frame_rate = 0
    /\ time_frames = 0
    /\ time_seconds = None
    /\ time_round_trip = None

\* MainState::new
Init ==
    /\ TimeIdle
    /\ chapters \in ChapterLists
    /\ mode = "Stopped"
    /\ data = TRUE
    /\ start_position = 0
    /\ sound_state = "None"
    /\ sound_position = 0
    /\ sound_seek = None
    /\ in_progress_seek = None
    /\ end_frame = 0
    /\ current_frame = 0
    /\ canvas_read_buffer = FALSE
    /\ ffmpeg = "none"
    /\ swap_interval = "VSync"
    /\ previous_position = 0
    /\ canvas = None
    /\ start_chapter_index = 1
    /\ end_chapter_index = IF chapters = <<>> THEN 1 ELSE Len(chapters)
    /\ show_rendering_window = FALSE
    /\ phase = "input"
    /\ session = "running"
    /\ start_frame = 0
    /\ written = <<>>
    /\ drawn = <<>>
    /\ tick_frame = None
    /\ last_op = "new"


\* the histories describe the export in progress, or the one the last step ended
KeepHistory ==
    IF mode = "Rendering"
    THEN UNCHANGED historyVars
    ELSE start_frame' = 0 /\ written' = <<>> /\ drawn' = <<>>

\* a handler returns Err or panics: nothing of the mode is touched
Fail(kind) ==
    /\ session' = kind
    /\ UNCHANGED modeVars

\* faulty variant: start_position is not passed on, the sound starts at the default position
play_start_position_default == frame_to_time(0)

\* the position the sound is started at (data.settings.start_position)
play_start_position == start_position

\* MainState::play_or_resume; ok: AudioManager::play accepts the sound
play_or_resume(ok) ==
    CASE mode = "Stopped" ->
            IF ~data
            THEN Fail("panic")
            ELSE IF ok
            THEN /\ mode' = "PlayingOrPaused"
                 /\ data' = FALSE
                 /\ start_position' = 0
                 /\ sound_state' = "Playing"
                 /\ sound_position' = play_start_position
                 /\ sound_seek' = None
                 /\ in_progress_seek' = None
                 /\ session' = session
                 /\ UNCHANGED <<end_frame, current_frame, canvas_read_buffer>>
            ELSE /\ data' = FALSE
                 /\ session' = "error"
                 /\ UNCHANGED <<mode, start_position, sound_state, sound_position,
                                sound_seek, in_progress_seek, end_frame, current_frame,
                                canvas_read_buffer>>
      [] mode = "PlayingOrPaused" ->
            /\ sound_state' = IF sound_state = "Paused" THEN "Playing" ELSE sound_state
            /\ session' = session
            /\ UNCHANGED <<mode, data, start_position, sound_position, sound_seek,
                           in_progress_seek, end_frame, current_frame, canvas_read_buffer>>
      [] mode = "Rendering" -> Fail("panic")

\* MainState::pause
pause ==
    IF mode = "PlayingOrPaused"
    THEN /\ sound_state' = IF sound_state = "Playing" THEN "Paused" ELSE sound_state
         /\ session' = session
         /\ UNCHANGED <<mode, data, start_position, sound_position, sound_seek,
                        in_progress_seek, end_frame, current_frame, canvas_read_buffer>>
    ELSE /\ session' = session
         /\ UNCHANGED modeVars

\* MainState::toggle_playback
toggle_playback(ok) ==
    IF playing THEN pause ELSE play_or_resume(ok)

\* MainState::seek
seek(position) ==
    CASE mode = "Stopped" ->
            /\ start_position' = position
            /\ session' = session
            /\ UNCHANGED <<mode, data, sound_state, sound_position, sound_seek,
                           in_progress_seek, end_frame, current_frame, canvas_read_buffer>>
      [] mode = "PlayingOrPaused" ->
            /\ sound_seek' = Some(position)
            /\ in_progress_seek' = Some(position)
            /\ session' = session
            /\ UNCHANGED <<mode, data, start_position, sound_state, sound_position,
                           end_frame, current_frame, canvas_read_buffer>>
      [] mode = "Rendering" -> Fail("panic")

\* MainState::current_chapter_index (1-based; 0 when no chapter starts at or before
\* the current frame)
current_chapter_index ==
    LET started == {i \in 1..Len(chapters) : chapters[i] <= current_frame_now}
    IN IF started = {} THEN 0 ELSE CHOOSE i \in started : \A j \in started : j <= i

\* MainState::go_to_chapter
go_to_chapter(chapter_index) ==
    seek(frame_to_time(chapters[chapter_index]))

\* MainState::go_to_next_chapter
go_to_next_chapter ==
    IF chapters = <<>>
    THEN session' = session /\ UNCHANGED modeVars
    ELSE IF current_chapter_index = 0
    THEN Fail("panic")
    ELSE IF current_chapter_index >= Len(chapters)
    THEN session' = session /\ UNCHANGED modeVars
    ELSE go_to_chapter(current_chapter_index + 1)

\* MainState::go_to_previous_chapter
go_to_previous_chapter ==
    IF chapters = <<>>
    THEN session' = session /\ UNCHANGED modeVars
    ELSE IF current_chapter_index = 0
    THEN Fail("panic")
    ELSE IF current_chapter_index = 1
    THEN session' = session /\ UNCHANGED modeVars
    ELSE go_to_chapter(current_chapter_index - 1)

\* faulty variant: the presentation mode is restored, the mode is left as it is
stop_rendering_keeping_mode ==
    /\ swap_interval' = "VSync"
    /\ UNCHANGED <<modeVars, ffmpeg>>

\* faulty variant: the export is stopped without a reloaded audio source
stop_rendering_without_reload ==
    /\ mode' = "Stopped"
    /\ data' = FALSE
    /\ start_position' = 0
    /\ sound_state' = "None"
    /\ sound_position' = 0
    /\ sound_seek' = None
    /\ in_progress_seek' = None
    /\ end_frame' = 0
    /\ current_frame' = 0
    /\ canvas_read_buffer' = FALSE
    /\ ffmpeg' = "dropped"
    /\ swap_interval' = "VSync"

\* MainState::stop_rendering: the Rendering value is replaced, which drops the
\* Child (its stdin is closed, the process is not waited for) and the buffer
stop_rendering ==
    /\ mode' = "Stopped"
    /\ data' = TRUE
    /\ start_position' = 0
    /\ sound_state' = "None"
    /\ sound_position' = 0
    /\ sound_seek' = None
    /\ in_progress_seek' = None
    /\ end_frame' = 0
    /\ current_frame' = 0
    /\ canvas_read_buffer' = FALSE
    /\ ffmpeg' = "dropped"
    /\ swap_interval' = "VSync"

\* faulty variant: the presentation mode is switched before the spawn is known to succeed
render_spawn_failed_after_switch ==
    /\ session' = "error"
    /\ swap_interval' = "Immediate"
    /\ UNCHANGED <<modeVars, ffmpeg>>

\* MainState::render when Command::spawn fails: the ? returns before the mode is set
render_spawn_failed ==
    /\ session' = "error"
    /\ UNCHANGED <<modeVars, exportVars>>

\* MainState::render; video_path: the file dialog returned a path; spawn_ok: the
\* encoder process was spawned
render(video_path, spawn_ok) ==
    LET first == IF chapters # <<>> THEN chapters[start_chapter_index] ELSE 0
        last == IF chapters # <<>> THEN chapter_end_frame(end_chapter_index)
                ELSE num_frames - 1
    IN IF ~video_path
       THEN /\ last_op' = "window"
            /\ KeepHistory
            /\ UNCHANGED <<modeVars, exportVars, session>>
       ELSE IF ~spawn_ok
       THEN /\ last_op' = "render_spawn_failed"
            /\ render_spawn_failed
            /\ KeepHistory
       ELSE /\ last_op' = "render"
            /\ mode' = "Rendering"
            /\ data' = FALSE
            /\ start_position' = 0
            /\ sound_state' = "None"
            /\ sound_position' = 0
            /\ sound_seek' = None
            /\ in_progress_seek' = None
            /\ end_frame' = last
            /\ current_frame' = first
            /\ canvas_read_buffer' = TRUE
            /\ ffmpeg' = "piped"
            /\ swap_interval' = "Immediate"
            /\ start_frame' = first
            /\ written' = <<>>
            /\ drawn' = <<>>
            /\ session' = session

----
\* the handlers of State<anyhow::Error> for MainState, as the host loop calls them:
\* events and ui while phase = "input", then update, then draw

Running(p) == session = "running" /\ phase = p

\* State::event, Scancode::Space
KeySpace ==
    /\ Running("input")
    /\ \E ok \in BOOLEAN : toggle_playback(ok)
    /\ last_op' = IF playing THEN "pause"
                  ELSE IF mode = "PlayingOrPaused" THEN "resume" ELSE "play"
    /\ KeepHistory
    /\ UNCHANGED <<timeVars, chapters, exportVars, drawVars, settingsVars, phase>>

\* State::event, Scancode::Comma
KeyComma ==
    /\ Running("input")
    /\ go_to_previous_chapter
    /\ last_op' = "chapter_key"
    /\ KeepHistory
    /\ UNCHANGED <<timeVars, chapters, exportVars, drawVars, settingsVars, phase>>

\* State::event, Scancode::Period
KeyPeriod ==
    /\ Running("input")
    /\ go_to_next_chapter
    /\ last_op' = "chapter_key"
    /\ KeepHistory
    /\ UNCHANGED <<timeVars, chapters, exportVars, drawVars, settingsVars, phase>>

\* a call of MainState::pause in the current mode
Pause ==
    /\ Running("input")
    /\ pause
    /\ last_op' = "pause"
    /\ KeepHistory
    /\ UNCHANGED <<timeVars, chapters, exportVars, drawVars, settingsVars, phase>>

\* a call of MainState::seek in the current mode
Seek ==
    /\ Running("input")
    /\ \E position \in SeekTargets : seek(position)
    /\ last_op' = "seek"
    /\ KeepHistory
    /\ UNCHANGED <<timeVars, chapters, exportVars, drawVars, settingsVars, phase>>

\* the "Render" button of the main menu
OpenRenderingWindow ==
    /\ Running("input")
    /\ ~show_rendering_window
    /\ show_rendering_window' = TRUE
    /\ last_op' = "window"
    /\ KeepHistory
    /\ UNCHANGED <<timeVars, chapters, modeVars, exportVars, drawVars, start_chapter_index,
                   end_chapter_index, phase, session>>

\* the combo boxes of the rendering window
SelectChapters ==
    /\ Running("input")
    /\ show_rendering_window
    /\ chapters # <<>>
    /\ \E s \in 1..Len(chapters), e \in 1..Len(chapters) :
          /\ <<s, e>> # <<start_chapter_index, end_chapter_index>>
          /\ start_chapter_index' = s
          /\ end_chapter_index' = e
    /\ last_op' = "window"
    /\ KeepHistory
    /\ UNCHANGED <<timeVars, chapters, modeVars, exportVars, drawVars, show_rendering_window,
                   phase, session>>

\* the "Render" button of the rendering window
Render ==
    /\ Running("input")
    /\ show_rendering_window
    /\ \E video_path \in BOOLEAN, spawn_ok \in BOOLEAN : render(video_path, spawn_ok)
    /\ UNCHANGED <<timeVars, chapters, drawVars, settingsVars, phase>>


\* faulty variant: a position exactly the threshold away does not finish the seek
seek_finished_strictly(position, destination) ==
    Abs(position - destination) < FINISHED_SEEK_DETECTION_THRESHOLD

\* the seek debounce of State::update
seek_finished(position, destination) ==
    Abs(position - destination) <= FINISHED_SEEK_DETECTION_THRESHOLD

\* faulty variant: the end of the track is looked for only when no seek is in progress
sound_finished_unless_seeking == sound_state = "Stopped" /\ in_progress_seek = None

\* the end-of-track test of State::update
sound_finished == sound_state = "Stopped"

\* State::update
Update ==
    /\ Running("input")
    /\ phase' = "draw"
    /\ IF mode = "PlayingOrPaused"
       THEN LET seeking == in_progress_seek # None
                arrived == /\ seeking
                           /\ seek_finished(sound_position, in_progress_seek[1])
            IN IF sound_finished
               THEN /\ mode' = "Stopped"
                    /\ data' = TRUE
                    /\ start_position' = 0
                    /\ sound_state' = "None"
                    /\ sound_position' = 0
                    /\ sound_seek' = None
                    /\ in_progress_seek' = None
                    /\ last_op' = IF seeking THEN "update_end_seeking" ELSE "update_end"
                    /\ UNCHANGED <<end_frame, current_frame, canvas_read_buffer>>
               ELSE /\ in_progress_seek' = IF arrived THEN None ELSE in_progress_seek
                    /\ last_op' = IF arrived THEN "update_seek_finished"
                                  ELSE IF seeking THEN "update_seeking" ELSE "update"
                    /\ UNCHANGED <<mode, data, start_position, sound_state, sound_position,
                                   sound_seek, end_frame, current_frame, canvas_read_buffer>>
       ELSE /\ last_op' = "update"
            /\ UNCHANGED modeVars
    /\ KeepHistory
    /\ UNCHANGED <<timeVars, chapters, ffmpeg, swap_interval, drawVars, settingsVars, session>>

\* the gate of the visualizer's draw in State::draw
position_changed == current_position # previous_position

\* faulty variant: the frame counter steps over a frame
next_frame_skipping(frame) == frame + 2

\* the step of the export's frame counter
next_frame(frame) == frame + 1

\* the end test of the export
export_finished(frame, last) == frame > last

\* State::draw; write_ok: write_all to the encoder's stdin succeeds
Draw ==
    /\ Running("draw")
    /\ phase' = "input"
    /\ LET frame == current_frame_now
           redraw == position_changed
           pixels == IF redraw THEN Some(frame) ELSE canvas
       IN /\ canvas' = pixels
          /\ previous_position' = IF redraw THEN current_position ELSE previous_position
          /\ tick_frame' = Some(frame)
          /\ IF mode = "Rendering"
             THEN /\ drawn' = IF redraw THEN Append(drawn, frame) ELSE drawn
                  /\ \E write_ok \in BOOLEAN :
                        IF ~write_ok
                        THEN /\ stop_rendering
                             /\ written' = written
                             /\ last_op' = "draw_write_failed"
                        ELSE /\ written' = Append(written,
                                              [frame |-> current_frame, pixels |-> pixels])
                             /\ IF export_finished(next_frame(current_frame), end_frame)
                                THEN /\ stop_rendering
                                     /\ last_op' = "draw_export_complete"
                                ELSE /\ current_frame' = next_frame(current_frame)
                                     /\ last_op' = "draw_written"
                                     /\ UNCHANGED <<mode, data, start_position, sound_state,
                                                    sound_position, sound_seek,
                                                    in_progress_seek, end_frame,
                                                    canvas_read_buffer, ffmpeg,
                                                    swap_interval>>
             ELSE /\ last_op' = "draw"
                  /\ UNCHANGED <<modeVars, ffmpeg, swap_interval, written, drawn>>
    /\ UNCHANGED <<timeVars, chapters, start_frame, settingsVars, session>>

----
\* the audio engine's thread, seen through the StreamingSoundHandle

\* playback advances the position
AudioAdvance ==
    /\ session = "running"
    /\ sound_state = "Playing"
    /\ sound_position < DurationUnits
    /\ sound_position' = sound_position + 1
    /\ last_op' = "audio"
    /\ UNCHANGED <<timeVars, chapters, mode, data, start_position, sound_state, sound_seek,
                   in_progress_seek, end_frame, current_frame, canvas_read_buffer,
                   exportVars, historyVars, drawVars, settingsVars, phase, session>>

\* the engine applies the pending seek (the latest one asked for)
AudioSeek ==
    /\ session = "running"
    /\ sound_state \in {"Playing", "Paused"}
    /\ sound_seek # None
    /\ sound_position' = Min(sound_seek[1], DurationUnits)
    /\ last_op' = "audio"
    /\ sound_seek' = None
    /\ UNCHANGED <<timeVars, chapters, mode, data, start_position, sound_state,
                   in_progress_seek, end_frame, current_frame, canvas_read_buffer,
                   exportVars, historyVars, drawVars, settingsVars, phase, session>>

\* the sound reaches the end of the track
AudioFinish ==
    /\ session = "running"
    /\ sound_state = "Playing"
    /\ sound_position = DurationUnits
    /\ sound_state' = "Stopped"
    /\ sound_seek' = None
    /\ last_op' = "audio"
    /\ UNCHANGED <<timeVars, chapters, mode, data, start_position, sound_position,
                   in_progress_seek, end_frame, current_frame, canvas_read_buffer,
                   exportVars, historyVars, drawVars, settingsVars, phase, session>>

Next ==
    \/ KeySpace
    \/ KeyComma
    \/ KeyPeriod
    \/ Pause
    \/ Seek
    \/ OpenRenderingWindow
    \/ SelectChapters
    \/ Render
    \/ Update
    \/ Draw
    \/ AudioAdvance
    \/ AudioSeek
    \/ AudioFinish

Spec == Init /\ [][Next]_vars

\* the host loop calls update and draw on every tick for as long as the session runs
FairSpec == Spec /\ WF_vars(Update) /\ WF_vars(Draw)

TypeOK ==
    /\ mode \in Modes
    /\ session \in {"running", "error", "panic"}
    /\ phase \in {"input", "draw"}
    /\ sound_position \in 0..DurationUnits

----
\* chapter navigation as main_state/chapters.rs has it, over the time types of
\* time.rs and the chapter list of chapters.rs (the list is an Option there: <<>> is
\* None); it reaches the mode through seek and current_position

\* chapters.rs:5, 2 s
BEGINNING_OF_CHAPTER_THRESHOLD == 2 * UnitsPerSecond
\* duration of the longer track the navigation is exercised on, in units of 0.1 s
SplitDurationUnits == 60
\* its chapter lists (start frames) and the positions a caller seeks to
SplitChapterLists == {<<>>, <<0, 5>>, <<0, 5, 25>>}
SplitSeekTargets == {9, 15, 30, 31, 40, 55}

\* Frames::to_seconds
to_seconds(frames) == (frames * UnitsPerSecond) \div FrameRate

\* Seconds::to_frames: the cast `as u64` drops the fraction
to_frames(seconds) == (seconds * FrameRate) \div UnitsPerSecond

\* Chapters::index_at_frame (1-based; 0 for None)
index_at_frame(frame) ==
    LET started == {i \in 1..Len(chapters) : chapters[i] <= frame}
    IN IF started = {} THEN 0 ELSE CHOOSE i \in started : \A j \in started : j <= i

\* the frame chapter navigation looks the current chapter up with
navigation_frame == to_frames(current_position)

\* chapters.rs, MainState::go_to_chapter
chapters_go_to_chapter(chapter_index) ==
    IF chapters = <<>>
    THEN session' = session /\ UNCHANGED modeVars
    ELSE seek(to_seconds(chapters[chapter_index]))

\* chapters.rs, MainState::go_to_next_chapter
chapters_go_to_next_chapter ==
    IF chapters = <<>>
    THEN session' = session /\ UNCHANGED modeVars
    ELSE IF index_at_frame(navigation_frame) = 0
    THEN Fail("panic")
    ELSE IF index_at_frame(navigation_frame) >= Len(chapters)
    THEN session' = session /\ UNCHANGED modeVars
    ELSE chapters_go_to_chapter(index_at_frame(navigation_frame) + 1)

\* faulty variant: exactly 2 s into the chapter already restarts it
past_beginning_of_chapter_inclusive(time_since_start_of_chapter) ==
    time_since_start_of_chapter >= BEGINNING_OF_CHAPTER_THRESHOLD

\* faulty variant: the comparison is the wrong way round
past_beginning_of_chapter_reversed(time_since_start_of_chapter) ==
    time_since_start_of_chapter < BEGINNING_OF_CHAPTER_THRESHOLD

\* the test of go_to_previous_chapter on the time since the start of the chapter
past_beginning_of_chapter(time_since_start_of_chapter) ==
    time_since_start_of_chapter > BEGINNING_OF_CHAPTER_THRESHOLD

\* faulty variant: at the first chapter the call returns without a seek
chapters_go_to_previous_chapter_unless_first ==
    IF chapters = <<>> \/ index_at_frame(navigation_frame) = 1
    THEN session' = session /\ UNCHANGED modeVars
    ELSE IF index_at_frame(navigation_frame) = 0
    THEN Fail("panic")
    ELSE LET chapter_index == index_at_frame(navigation_frame)
             current_chapter_start_time == to_seconds(chapters[chapter_index])
         IN IF past_beginning_of_chapter(current_position - current_chapter_start_time)
            THEN seek(current_chapter_start_time)
            ELSE chapters_go_to_chapter(chapter_index - 1)

\* chapters.rs, MainState::go_to_previous_chapter
chapters_go_to_previous_chapter ==
    IF chapters = <<>>
    THEN session' = session /\ UNCHANGED modeVars
    ELSE IF index_at_frame(navigation_frame) = 0
    THEN Fail("panic")
    ELSE LET chapter_index == index_at_frame(navigation_frame)
             current_chapter_start_time == to_seconds(chapters[chapter_index])
             time_since_start_of_chapter == current_position - current_chapter_start_time
         IN IF \/ chapter_index = 1
               \/ past_beginning_of_chapter(time_since_start_of_chapter)
            THEN seek(current_chapter_start_time)
            ELSE chapters_go_to_chapter(chapter_index - 1)

\* history: the branch go_to_previous_chapter takes from the current state
previous_chapter_branch ==
    IF chapters = <<>> \/ index_at_frame(navigation_frame) = 0
    THEN "previous_chapter"
    ELSE IF index_at_frame(navigation_frame) = 1
    THEN "previous_chapter_first"
    ELSE IF past_beginning_of_chapter(
               current_position - to_seconds(chapters[index_at_frame(navigation_frame)]))
    THEN "previous_chapter_restart"
    ELSE "previous_chapter_back"

\* the construction, with the longer track's chapters
SplitInit ==
    /\ TimeIdle
    /\ chapters \in SplitChapterLists
    /\ mode = "Stopped"
    /\ data = TRUE
    /\ start_position = 0
    /\ sound_state = "None"
    /\ sound_position = 0
    /\ sound_seek = None
    /\ in_progress_seek = None
    /\ end_frame = 0
    /\ current_frame = 0
    /\ canvas_read_buffer = FALSE
    /\ ffmpeg = "none"
    /\ swap_interval = "VSync"
    /\ previous_position = 0
    /\ canvas = None
    /\ start_chapter_index = 1
    /\ end_chapter_index = IF chapters = <<>> THEN 1 ELSE Len(chapters)
    /\ show_rendering_window = FALSE
    /\ phase = "input"
    /\ session = "running"
    /\ start_frame = 0
    /\ written = <<>>
    /\ drawn = <<>>
    /\ tick_frame = None
    /\ last_op = "new"

\* a call of MainState::seek on the longer track
SplitSeek ==
    /\ Running("input")
    /\ \E position \in SplitSeekTargets : seek(position)
    /\ last_op' = "seek"
    /\ KeepHistory
    /\ UNCHANGED <<timeVars, chapters, exportVars, drawVars, settingsVars, phase>>

\* the "<<" button of the main menu
PreviousChapterButton ==
    /\ Running("input")
    /\ mode # "Rendering"
    /\ chapters_go_to_previous_chapter
    /\ last_op' = previous_chapter_branch
    /\ KeepHistory
    /\ UNCHANGED <<timeVars, chapters, exportVars, drawVars, settingsVars, phase>>

\* the ">>" button of the main menu
NextChapterButton ==
    /\ Running("input")
    /\ mode # "Rendering"
    /\ chapters_go_to_next_chapter
    /\ last_op' = "next_chapter"
    /\ KeepHistory
    /\ UNCHANGED <<timeVars, chapters, exportVars, drawVars, settingsVars, phase>>

\* Chapters::end_frame (0-based index + 1 is the next chapter; None is <<>>)
chapters_end_frame(chapter_index) ==
    IF chapter_index + 1 <= Len(chapters)
    THEN Some(chapters[chapter_index + 1] - 1)
    ELSE None

\* the fallback of render for the end frame: self.duration.to_frames(frame_rate)
duration_to_frames == to_frames(SplitDurationUnits)

\* rendering.rs, MainState::render; video_path: the file dialog returned a path;
\* spawn_ok: the encoder process was spawned
rendering_render(video_path, spawn_ok) ==
    LET first == IF chapters # <<>> THEN chapters[start_chapter_index] ELSE 0
        last == IF chapters # <<>> /\ chapters_end_frame(end_chapter_index) # None
                THEN chapters_end_frame(end_chapter_index)[1]
                ELSE duration_to_frames
    IN IF ~video_path
       THEN /\ last_op' = "window"
            /\ KeepHistory
            /\ UNCHANGED <<modeVars, exportVars, session>>
       ELSE IF ~spawn_ok
       THEN /\ last_op' = "render_spawn_failed"
            /\ render_spawn_failed
            /\ KeepHistory
       ELSE /\ last_op' = "render"
            /\ mode' = "Rendering"
            /\ data' = FALSE
            /\ start_position' = 0
            /\ sound_state' = "None"
            /\ sound_position' = 0
            /\ sound_seek' = None
            /\ in_progress_seek' = None
            /\ end_frame' = last
            /\ current_frame' = first
            /\ canvas_read_buffer' = TRUE
            /\ ffmpeg' = "piped"
            /\ swap_interval' = "Immediate"
            /\ start_frame' = first
            /\ written' = <<>>
            /\ drawn' = <<>>
            /\ session' = session

\* the "Render" button of the rendering window, with render as rendering.rs has it
SplitRender ==
    /\ Running("input")
    /\ show_rendering_window
    /\ \E video_path \in BOOLEAN, spawn_ok \in BOOLEAN :
          rendering_render(video_path, spawn_ok)
    /\ UNCHANGED <<timeVars, chapters, drawVars, settingsVars, phase>>

SplitNext ==
    \/ SplitSeek
    \/ KeySpace
    \/ PreviousChapterButton
    \/ NextChapterButton
    \/ OpenRenderingWindow
    \/ SelectChapters
    \/ SplitRender

SplitSpec == SplitInit /\ [][SplitNext]_vars

----
\* the conversions between Frames and Seconds in f64 arithmetic, followed on their own

\* f64 has a significand of 53 bits
MantissaBits == 53
LowBits == MantissaBits \div 2
HighBits == MantissaBits - LowBits
Pow2(n) == 2 ^ n

\* a finite f64 >= 0 is (hi * 2^LowBits + lo) * 2^e, the significand of 53 bits cut
\* in two so that every intermediate value stays below 2^31; hi has its top bit set,
\* except in zero.  The operators cover integers below 2^26 and divisors and factors
\* up to 15, which is where the values of the bounded inputs lie.
F64Zero == [hi |-> 0, lo |-> 0, e |-> 0]

\* IEEE 754 round to nearest, ties to even: the significand goes one up when what was
\* cut off is more than half a unit in the last place, or exactly half and lo is odd
F64Round(hi, lo, e, twice_cut, unit) ==
    LET up == twice_cut > unit \/ (twice_cut = unit /\ lo % 2 = 1)
    IN IF ~up
       THEN [hi |-> hi, lo |-> lo, e |-> e]
       ELSE IF lo + 1 < Pow2(LowBits)
       THEN [hi |-> hi, lo |-> lo + 1, e |-> e]
       ELSE IF hi + 1 < Pow2(HighBits)
       THEN [hi |-> hi + 1, lo |-> 0, e |-> e]
       ELSE [hi |-> Pow2(HighBits - 1), lo |-> 0, e |-> e + 1]

\* a as f64 / b as f64 (the casts are exact): long division to 53 significant bits
f64_div(a, b) ==
    IF a = 0
    THEN F64Zero
    ELSE LET \* a / b lies in [2^j, 2^(j+1))
             j == IF a >= b
                  THEN CHOOSE n \in 0..LowBits : (a \div b) \div Pow2(n) = 1
                  ELSE 0 - (CHOOSE n \in 1..LowBits :
                                a * Pow2(n) >= b /\ a * Pow2(n - 1) < b)
             k == MantissaBits - 1 - j
             c1 == (k - LowBits) \div 2
             c2 == (k - LowBits) - c1
             q1 == a \div b
             t1 == (a % b) * Pow2(c1)
             t2 == (t1 % b) * Pow2(c2)
             t3 == (t2 % b) * Pow2(LowBits)
         IN F64Round(q1 * Pow2(c1 + c2) + (t1 \div b) * Pow2(c2) + (t2 \div b),
                     t3 \div b, 0 - k, 2 * (t3 % b), b)

\* x * (b as f64)
f64_mul(x, b) ==
    IF x = F64Zero \/ b = 0
    THEN F64Zero
    ELSE LET low == x.lo * b
             high == x.hi * b + low \div Pow2(LowBits)
             l == low % Pow2(LowBits)
             \* the product has 53 + s bits
             s == CHOOSE n \in 0..4 : (high \div Pow2(n)) \div Pow2(HighBits - 1) = 1
         IN F64Round(high \div Pow2(s),
                     l \div Pow2(s) + (high % Pow2(s)) * Pow2(LowBits - s),
                     x.e + s, 2 * (l % Pow2(s)), Pow2(s))

\* the integer part of an f64 below 2^31, and whether a fraction follows it
f64_integer_part(x) ==
    IF x.e >= 0 - LowBits
    THEN x.hi * Pow2(LowBits + x.e) + x.lo \div Pow2(0 - x.e)
    ELSE IF x.e > 0 - MantissaBits
    THEN x.hi \div Pow2(0 - x.e - LowBits)
    ELSE 0
f64_has_fraction(x) ==
    IF x.e >= 0 - LowBits
    THEN x.lo % Pow2(0 - x.e) # 0
    ELSE IF x.e > 0 - MantissaBits
    THEN x.lo # 0 \/ x.hi % Pow2(0 - x.e - LowBits) # 0
    ELSE x # F64Zero

\* x as u64
f64_as_u64(x) == f64_integer_part(x)

\* x.ceil() as u64
f64_ceil_as_u64(x) == f64_integer_part(x) + IF f64_has_fraction(x) THEN 1 ELSE 0

\* the frame rates and frame numbers the conversions are followed for
MaxFrameRate == 8
MaxFrames == 64

\* Frames::to_seconds, and MainState::frame_to_time, in f64
f64_to_seconds(frames, frame_rate) == f64_div(frames, frame_rate)

\* Seconds::to_frames in f64
f64_to_frames(seconds, frame_rate) == f64_as_u64(f64_mul(seconds, frame_rate))

\* the conversion of MainState::current_frame in f64
f64_current_frame(position, frame_rate) == f64_ceil_as_u64(f64_mul(position, frame_rate))

\* a frame rate and a frame number, the rest as constructed
TimeInit ==
    /\ time_frame_rate \in 1..MaxFrameRate
    /\ time_frames \in 0..MaxFrames
    /\ time_seconds = None
    /\ time_round_trip = None
    /\ chapters = <<>>
    /\ mode = "Stopped"
    /\ data = TRUE
    /\ start_position = 0
    /\ sound_state = "None"
    /\ sound_position = 0
    /\ sound_seek = None
    /\ in_progress_seek = None
    /\ end_frame = 0
    /\ current_frame = 0
    /\ canvas_read_buffer = FALSE
    /\ ffmpeg = "none"
    /\ swap_interval = "VSync"
    /\ previous_position = 0
    /\ canvas = None
    /\ start_chapter_index = 1
    /\ end_chapter_index = 1
    /\ show_rendering_window = FALSE
    /\ phase = "input"
    /\ session = "running"
    /\ start_frame = 0
    /\ written = <<>>
    /\ drawn = <<>>
    /\ tick_frame = None
    /\ last_op = "new"

\* the frame is converted to seconds (go_to_chapter does it with the start frame)
FramesToSeconds ==
    /\ time_seconds = None
    /\ time_seconds' = Some(f64_to_seconds(time_frames, time_frame_rate))
    /\ UNCHANGED <<mainVars, time_frame_rate, time_frames, time_round_trip>>

\* the seconds are converted back by Seconds::to_frames
SecondsToFrames ==
    /\ time_seconds # None
    /\ time_round_trip = None
    /\ time_round_trip' =
          Some([by |-> "to_frames",
                frames |-> f64_to_frames(time_seconds[1], time_frame_rate)])
    /\ UNCHANGED <<mainVars, time_frame_rate, time_frames, time_seconds>>

\* the seconds are converted back by MainState::current_frame
SecondsToCurrentFrame ==
    /\ time_seconds # None
    /\ time_round_trip = None
    /\ time_round_trip' =
          Some([by |-> "current_frame",
                frames |-> f64_current_frame(time_seconds[1], time_frame_rate)])
    /\ UNCHANGED <<mainVars, time_frame_rate, time_frames, time_seconds>>

TimeNext ==
    \/ FramesToSeconds
    \/ SecondsToFrames
    \/ SecondsToCurrentFrame

TimeSpec == TimeInit /\ [][TimeNext]_vars

----
\* the steps the properties speak about
DrawStep == phase = "draw" /\ phase' = "input"
UpdateStep == phase = "input" /\ phase' = "draw"
FramesOf(w) == [i \in 1..Len(w) |-> w[i].frame]
FrameRange(first, last) == [i \in 1..(last - first + 1) |-> first + i - 1]

C1_Step ==
    (DrawStep /\ mode = "Rendering" /\ written' # written) =>
        /\ written' = Append(written, [frame |-> current_frame, pixels |-> canvas'])
        /\ FramesOf(written) = FrameRange(start_frame, current_frame - 1)
        /\ IF mode' = "Rendering"
           THEN /\ current_frame' = current_frame + 1
                /\ current_frame' <= end_frame
                /\ end_frame' = end_frame
           ELSE /\ current_frame + 1 > end_frame
                /\ start_frame <= end_frame =>
                      FramesOf(written') = FrameRange(start_frame, end_frame)

\* C1: while Rendering, every tick whose encoder write succeeds writes exactly one
\* frame buffer, the one of current_frame, and increases current_frame by exactly 1;
\* the frames written so far are start_frame .. current_frame - 1 without a gap or a
\* repetition, and an export of [start_frame, end_frame] that completes has written
\* start_frame, start_frame + 1, ..., end_frame.
C1_ExportWritesEveryFrameOnce == [][C1_Step]_vars

C1_Witness ==
    /\ last_op = "draw_export_complete"
    /\ Len(written) >= 3
    /\ FramesOf(written) = FrameRange(start_frame, start_frame + Len(written) - 1)

C2_Step ==
    /\ (DrawStep /\ mode = "Rendering" /\ written' = written) =>
          /\ mode' = "Stopped"
          /\ data' = TRUE
          /\ start_position' = 0
          /\ session' = "running"
          /\ ffmpeg' # "piped"
          /\ canvas_read_buffer' = FALSE
    /\ Len(written') > Len(written) => (mode = "Rendering" /\ ffmpeg = "piped")

C2_Playable ==
    last_op = "draw_write_failed" =>
        /\ mode = "Stopped" /\ data /\ session = "running"
        /\ ENABLED (KeySpace /\ mode' = "PlayingOrPaused")

\* C2: a tick in Rendering whose encoder write fails leaves the mode Stopped in that
\* same tick, with no frame counted as written; frames are only ever written to the
\* piped encoder of a running export, so none follows on the failed one; the session
\* keeps running with a loaded audio source, so that play is possible.
C2_WriteFailureStopsExport == []C2_Playable /\ [][C2_Step]_vars

C2_Witness ==
    /\ last_op = "draw_write_failed"
    /\ mode = "Stopped"
    /\ Len(written) >= 1
    /\ data

\* C3: the visualizer's draw is invoked on a tick only if the current frame differs
\* from the current frame of the previous tick.
C3_DrawOnlyOnFrameChange ==
    [][(DrawStep /\ tick_frame # None /\ previous_position' # previous_position) =>
          current_frame_now # tick_frame[1]]_vars

\* C4: an export over [s, e], s <= e, that completes without a write failure invokes
\* the visualizer's draw exactly e - s + 1 times, once for each frame s..e.
C4_ExportDrawsEveryFrame ==
    [][(DrawStep /\ mode = "Rendering" /\ mode' = "Stopped" /\ written' # written
          /\ start_frame <= end_frame) =>
          drawn' = FrameRange(start_frame, end_frame)]_vars

SeekCalled == last_op' \in {"seek", "chapter_key"}

C5_Step ==
    /\ (mode = "PlayingOrPaused" /\ last_op' = "seek") =>
          /\ mode' = "PlayingOrPaused"
          /\ \E position \in SeekTargets :
                in_progress_seek' = Some(position) /\ sound_seek' = Some(position)
    /\ (UpdateStep /\ mode = "PlayingOrPaused" /\ mode' = "PlayingOrPaused"
          /\ in_progress_seek # None) =>
          in_progress_seek' =
             IF Abs(sound_position - in_progress_seek[1]) > FINISHED_SEEK_DETECTION_THRESHOLD
             THEN in_progress_seek ELSE None
    /\ (mode = "PlayingOrPaused" /\ mode' = "PlayingOrPaused"
          /\ in_progress_seek' # in_progress_seek) =>
          (UpdateStep \/ SeekCalled)

\* C5: in PlayingOrPaused, seek(pos) sets in_progress_seek = Some(pos), replacing any
\* pending target, and tells the handle to seek to pos; a tick that leaves the mode
\* PlayingOrPaused keeps in_progress_seek when the handle's position is more than
\* 0.1 s from it and clears it when the distance is at most 0.1 s; nothing else
\* changes in_progress_seek.
C5_SeekDebounce == [][C5_Step]_vars

C5_Witness ==
    /\ last_op = "update_seek_finished"
    /\ mode = "PlayingOrPaused"
    /\ in_progress_seek = None
    /\ sound_position = 8

C6_Step ==
    /\ (mode = "Stopped" /\ mode' = "PlayingOrPaused") =>
          /\ sound_position' = start_position
          /\ sound_state' = "Playing"
          /\ in_progress_seek' = None
          /\ sound_seek' = None
    /\ (mode # "Stopped" /\ mode' = "Stopped") => start_position' = 0
    /\ (mode = "Stopped" /\ mode' = "Stopped" /\ start_position' # start_position) =>
          SeekCalled
    /\ (mode = "Stopped" /\ last_op' = "seek") => start_position' \in SeekTargets
    /\ (mode = "Stopped" /\ SeekCalled) =>
          /\ mode' = "Stopped"
          /\ data' = data
          /\ session' = session
          /\ UNCHANGED <<sound_state, sound_position, sound_seek, in_progress_seek,
                         end_frame, current_frame, canvas_read_buffer>>

\* C6: play/resume from Stopped with start_position = p enters PlayingOrPaused with
\* the sound started at p and in_progress_seek = None; start_position is 0 whenever
\* Stopped is entered and is changed in Stopped only by a seek, to the position
\* asked for; a seek in Stopped changes nothing but start_position.
C6_PlayStartsAtStartPosition == start_position = 0 /\ [][C6_Step]_vars

C6_Witness ==
    /\ last_op = "play"
    /\ mode = "PlayingOrPaused"
    /\ sound_state = "Playing"
    /\ sound_position = 7
    /\ in_progress_seek = None

C7_Step ==
    (UpdateStep /\ mode = "PlayingOrPaused" /\ sound_state = "Stopped") =>
        /\ mode' = "Stopped"
        /\ data' = TRUE
        /\ start_position' = 0
        /\ sound_state' = "None"
        /\ in_progress_seek' = None

C7_NoHandleOutsidePlayback ==
    mode # "PlayingOrPaused" => (sound_state = "None" /\ sound_seek = None)

\* C7: a tick in PlayingOrPaused on which the handle reports Stopped leaves the mode
\* Stopped with a loaded audio source and start_position = 0, with or without a seek
\* in progress; outside PlayingOrPaused there is no sound handle.
C7_EndOfTrackStops == []C7_NoHandleOutsidePlayback /\ [][C7_Step]_vars

C7_Witness ==
    /\ last_op = "update_end_seeking"
    /\ mode = "Stopped"
    /\ data
    /\ start_position = 0

\* C8: seek, play/resume and pause invoked while the mode is Rendering each abort;
\* none returns success.
C8_ControlsAbortWhileRendering ==
    (mode = "Rendering" /\ last_op \in {"seek", "play", "resume", "pause"}) =>
        session = "panic"

C9_Step ==
    last_op' = "render_spawn_failed" =>
        /\ session' = "error"
        /\ UNCHANGED modeVars
        /\ swap_interval' = swap_interval
        /\ ffmpeg' = ffmpeg

\* C9: when spawning the encoder fails, render returns the error with the mode, all
\* its fields, and the presentation mode exactly as before the call.
C9_SpawnFailureChangesNothing == [][C9_Step]_vars

C9_Witness ==
    /\ last_op = "render_spawn_failed"
    /\ session = "error"
    /\ mode = "PlayingOrPaused"
    /\ in_progress_seek # None
    /\ swap_interval = "VSync"

\* C10: outside Rendering no encoder process is held unreaped: on every exit from
\* Rendering its stdin is closed, the process is waited for and the buffer released.
C10_EncoderReapedOutsideRendering ==
    mode # "Rendering" => (ffmpeg \in {"none", "reaped"} /\ ~canvas_read_buffer)

\* C14: while Rendering, no input the UI layer accepts (the play/pause button, the seek
\* bar, the chapter selector, the previous/next buttons, the keys space, comma and
\* period) results in a seek, play/resume or pause call reaching the state machine.
\* A key reaches play_or_resume when last_op is "play" in Rendering, and seek when a
\* chapter key ends in the panic of seek.
C14_InputsGatedWhileRendering ==
    mode = "Rendering" =>
        ~(last_op = "play" \/ (last_op = "chapter_key" /\ session = "panic"))

\* C15: an export is started only out of Stopped or PlayingOrPaused: while Rendering
\* no user action starts another export, no second encoder is spawned, and
\* current_frame and end_frame are never replaced.
C15_NoExportWhileRendering ==
    [][mode = "Rendering" =>
          /\ last_op' # "render"
          /\ mode' = "Rendering" =>
                (end_frame' = end_frame /\ current_frame' \in {current_frame, current_frame + 1})
      ]_vars

C16_Step ==
    /\ (last_op' = "seek" /\ mode \in {"Stopped", "PlayingOrPaused"}) =>
          \E position \in SeekTargets :
              /\ mode = "Stopped" => start_position' = position
              /\ mode = "PlayingOrPaused" => in_progress_seek' = Some(position)
              /\ current_frame_now' = position_to_frame(position)
    /\ (DrawStep /\ mode = "PlayingOrPaused" /\ in_progress_seek # None) =>
          tick_frame' = Some(position_to_frame(in_progress_seek[1]))

C16_WhileSeeking ==
    (mode = "PlayingOrPaused" /\ in_progress_seek # None) =>
        current_frame_now = position_to_frame(in_progress_seek[1])

\* C16: right after seek(pos) in Stopped or PlayingOrPaused the current frame is
\* seconds_to_frame(pos), and in PlayingOrPaused the current frame, also the one the
\* draw of every tick sees, stays seconds_to_frame(pos) for as long as
\* in_progress_seek is set, whatever position the handle reports.
C16_SeekReflectedAtOnce == []C16_WhileSeeking /\ [][C16_Step]_vars

\* a tick is drawn with the frame of the seek target while the handle is elsewhere
C16_Witness ==
    /\ last_op = "draw"
    /\ mode = "PlayingOrPaused"
    /\ in_progress_seek = Some(7)
    /\ tick_frame = Some(position_to_frame(7))
    /\ position_to_frame(sound_position) # position_to_frame(7)

\* an input handler ended the session during the export (C14), or started the
\* export anew (C15)
InputDuringExport ==
    /\ mode = "Rendering"
    /\ session # "running" \/ last_op = "render"

C17_Step ==
    (mode = "Rendering" /\ mode' # "Rendering") =>
        /\ DrawStep
        /\ mode' = "Stopped" /\ data' = TRUE /\ start_position' = 0
        /\ \/ written' = written
           \/ current_frame + 1 > end_frame

C17_Stopped == mode = "Stopped" /\ data /\ start_position = 0

\* C17: every export terminates: once Rendering is entered, the ticks that follow
\* lead to the mode Stopped with a fresh audio source and start_position = 0, unless
\* an input handler ends the session or starts the export anew; Rendering is left
\* only by a draw whose write failed or after which current_frame exceeds end_frame.
C17_ExportTerminates ==
    /\ [][C17_Step]_vars
    /\ [](mode = "Rendering" => <>(C17_Stopped \/ InputDuringExport))

\* an export of several frames has run to its end
C17_Witness ==
    /\ last_op = "draw_export_complete"
    /\ C17_Stopped
    /\ Len(written) > 3
    /\ session = "running"

\* C21: in every state whose mode is Stopped the pending audio source is present,
\* also after a play/resume from Stopped in which the audio engine failed to start the
\* sound, so that play/resume from Stopped never finds the source missing.
C21_StoppedHasData ==
    mode = "Stopped" => data

\* C22: in every Rendering state between two ticks start_frame <= current_frame <=
\* end_frame, whichever start and end chapter the rendering window was left with (a
\* start chapter after the end chapter included), and no frame outside
\* [start_frame, end_frame] is written by the export.
C22_ExportWithinRange ==
    /\ (mode = "Rendering" /\ phase = "input") =>
          (start_frame <= current_frame /\ current_frame <= end_frame)
    /\ mode = "Rendering" =>
          \A i \in 1..Len(written) :
              start_frame <= written[i].frame /\ written[i].frame <= end_frame

\* C23: every frame buffer written to the encoder while current_frame = k holds the
\* pixels of a visualizer draw made for frame k: at each write the frame last drawn
\* into the canvas is k, the first frame of an export started right after launch, or
\* at the position the export starts from, included.
C23_WrittenPixelsAreOfFrame ==
    \A i \in 1..Len(written) : written[i].pixels = Some(written[i].frame)

----
\* properties of the chapter navigation of main_state/chapters.rs (SplitSpec)

PreviousChapterCalled ==
    last_op' \in {"previous_chapter", "previous_chapter_first", "previous_chapter_restart",
                  "previous_chapter_back"}

\* the position a seek leaves as the current one, and what it hands to the handle
SoughtTo(position) ==
    /\ mode' = mode
    /\ session' = session
    /\ current_position' = position
    /\ mode = "Stopped" => start_position' = position
    /\ mode = "PlayingOrPaused" =>
          (in_progress_seek' = Some(position) /\ sound_seek' = Some(position))

C11_Step ==
    (PreviousChapterCalled /\ chapters # <<>> /\ index_at_frame(navigation_frame) > 1) =>
        LET i == index_at_frame(navigation_frame)
            elapsed == current_position - to_seconds(chapters[i])
        IN IF elapsed > 2 * UnitsPerSecond
           THEN SoughtTo(to_seconds(chapters[i]))
           ELSE SoughtTo(to_seconds(chapters[i - 1]))

HalfSecond == UnitsPerSecond \div 2
ThreeSeconds == 3 * UnitsPerSecond

\* chapter A is the first chapter and B the second; the call is made t into B
InChapterB(t) ==
    /\ PreviousChapterCalled
    /\ Len(chapters) >= 2
    /\ index_at_frame(navigation_frame) = 2
    /\ current_position - to_seconds(chapters[2]) = t

C19_Step ==
    PreviousChapterCalled =>
        /\ chapters = <<>> => (session' = session /\ UNCHANGED modeVars)
        /\ (chapters # <<>> /\ index_at_frame(navigation_frame) = 1) =>
              SoughtTo(to_seconds(chapters[1]))

ChapterNavigationCalled ==
    PreviousChapterCalled \/ last_op' = "next_chapter"

\* C20: every seconds-to-frame conversion the program uses (the current frame in
\* Stopped and in PlayingOrPaused, and the frame chapter navigation looks the current
\* chapter up with) returns the ceiling of seconds * rate.
C20_ConversionsAreCeiling ==
    [][(ChapterNavigationCalled /\ chapters # <<>>) =>
          /\ current_frame_now = CeilDiv(current_position * FrameRate, UnitsPerSecond)
          /\ navigation_frame = CeilDiv(current_position * FrameRate, UnitsPerSecond)]_vars

\* the frames of the longer track are 0 .. SplitNumFrames - 1: frame k begins at
\* k / FrameRate seconds, which lies before the end of the track
SplitNumFrames == CeilDiv(SplitDurationUnits * FrameRate, UnitsPerSecond)

C18_Step ==
    (last_op' = "render" /\ mode' = "Rendering") =>
        /\ current_frame' = start_frame'
        /\ start_frame' = IF chapters # <<>> THEN chapters[start_chapter_index] ELSE 0
        /\ end_frame' = IF chapters # <<>> /\ end_chapter_index < Len(chapters)
                        THEN chapters[end_chapter_index + 1] - 1
                        ELSE SplitNumFrames - 1
        /\ end_frame' <= SplitNumFrames - 1

\* C18: render resolves the frame range: with chapters start_frame is the start frame
\* of the start chapter and end_frame the frame before the start of the chapter after
\* the end chapter, or the track's last frame when the end chapter is the final one;
\* without chapters the range is 0 through the track's last frame; in every case
\* end_frame is at most the last frame index (number of frames - 1), and Rendering
\* starts with current_frame = start_frame.
C18_RenderRange == [][C18_Step]_vars

----
\* properties of the conversions (TimeSpec)

\* C13: for every frame rate r > 0 and frame f, seconds_to_frame(frame_to_seconds(f, r),
\* r) = f, so that after go_to_chapter(i) the current frame is the start frame of
\* chapter i and the current chapter is i.
C13_RoundTrip ==
    time_round_trip # None => time_round_trip[1].frames = time_frames

====
